---- MODULE Spec2Model ----
(***************************************************************************)
(* ReActAgent (agentscope/agent/_react_agent.py): the conversation log,    *)
(* the memory compaction engine and the reasoning-acting loop.             *)
(***************************************************************************)
EXTENDS Integers, Sequences, FiniteSets, TLC

VARIABLES
    memory,              \* self.memory: the conversation log, a sequence of turns
    summary,             \* the compressed summary stored in self.memory
    compression_config,  \* self.compression_config (None or a CompressionConfig)
    lastCompress,        \* what the latest _compress_memory_if_needed run did
    pc,                  \* the position of the controller
    agent,               \* parallel_tool_calls, plan_notebook, max_iters, knowledge,
                         \* enable_rewrite_query, set by __init__, and how the
                         \* model and the memory it is given behave
    hints,               \* self._reasoning_hint_msgs
    required,            \* self._required_structured_model
    toolkit,             \* self.toolkit: the finishing tool's registration
    loop,                \* reply's locals: tool_choice, structured_output, ...
    msg_reasoning,       \* reply's msg_reasoning: the turn of the current step
    calls,               \* the _acting coroutines of the current step
    prompt,              \* the prompt last handed to formatter.format
    history,             \* what the current reply call has done so far
    result,              \* how the latest reply call ended
    model,               \* self.model: its stream flag
    retrieval,           \* the _retrieve_from_knowledge call: position and locals
    compaction           \* the _compress_memory_if_needed call that is awaiting:
                         \* position and locals

\* the variables of the log and of the compaction engine
logVars == <<memory, summary, compression_config, lastCompress>>

\* the variables of the reply loop
replyVars ==
    <<agent, hints, required, toolkit, loop, msg_reasoning, calls, prompt,
      history, result>>

\* the variables of the knowledge retrieval
ragVars == <<model, retrieval>>

vars == <<logVars, pc, replyVars, ragVars, compaction>>

----------------------------------------------------------------------------
(* Bounds of the model *)

\* the longest log observe() builds and a compaction run is started on
MaxLog == 5

\* the longest list of Msg _retrieve_from_knowledge is given
MaxMsgs == 2
\* the largest keep_recent a configuration is given
MaxKeep == 3
\* the number of distinct tool-request identifiers
MaxIds == 2
\* the longest streamed answer of the summarization model
MaxChunks == 2
\* max_iters: the iteration budget of the reply loop
MaxIters == 2
\* the longest log a reply call is started on
MaxStartLog == 2
\* the most chunks a tool's outcome sequence yields
MaxToolChunks == 1

----------------------------------------------------------------------------
(* Turns (Msg) and the conversation log (MemoryBase) *)

None == "None"

\* _MemoryMark, plus the absence of a mark
HINT == "hint"
COMPRESSED == "compressed"
NoMark == "unmarked"

\* Msg(name, content, role, metadata): the content blocks are kept by type
Msg(role, kind, text, tool_use, tool_result, metadata) ==
    [role |-> role, kind |-> kind, text |-> text, tool_use |-> tool_use,
     tool_result |-> tool_result, metadata |-> metadata, mark |-> NoMark]

\* msg.get_content_blocks("tool_use"), as the set of request identifiers
UseIds(msg) == {msg.tool_use[k].id : k \in 1..Len(msg.tool_use)}

\* msg.get_content_blocks("tool_result"), as the set of request identifiers
ResultIds(msg) == {msg.tool_result[k].id : k \in 1..Len(msg.tool_result)}

\* ToolUseBlock(id, name, input)
ToolUseBlock(id, name, input) == [id |-> id, name |-> name, input |-> input]

\* ToolResultBlock(id, name, output)
ToolResultBlock(id, name, output) == [id |-> id, name |-> name, output |-> output]

RECURSIVE SelectIdx(_, _, _)
\* the indices i >= from of log whose mark is not exclude, in log order
SelectIdx(log, from, exclude) ==
    IF from > Len(log) THEN <<>>
    ELSE IF log[from].mark = exclude
         THEN SelectIdx(log, from + 1, exclude)
         ELSE <<from>> \o SelectIdx(log, from + 1, exclude)

\* memory.get_memory(exclude_mark=...): the positions of the turns returned
GetMemoryIdx(log, exclude_mark) == SelectIdx(log, 1, exclude_mark)

\* memory.get_memory(exclude_mark=...): the turns returned
GetMemory(log, exclude_mark) ==
    LET idx == GetMemoryIdx(log, exclude_mark)
    IN [k \in 1..Len(idx) |-> log[idx[k]]]

\* the Msg-typed value None
NoMsg == Msg("None", "None", FALSE, <<>>, <<>>, None)

\* memory.add(msg, marks=mark): None is ignored by the memory
MemoryAdd(log, msg, mark) ==
    IF msg = NoMsg THEN log ELSE Append(log, [msg EXCEPT !.mark = mark])

\* memory.update_messages_mark(msg_ids, new_mark)
UpdateMessagesMark(log, msg_ids, new_mark) ==
    [i \in 1..Len(log) |->
        IF i \in msg_ids THEN [log[i] EXCEPT !.mark = new_mark] ELSE log[i]]

----------------------------------------------------------------------------
(* _compress_memory_if_needed *)

\* a walk that counts every turn as a unit, whatever requests are open
KeepWalkEveryTurn(view, i, n_keep, acc, keep_recent) ==
    IF i = 0 THEN 0
    ELSE IF keep_recent <= 1 THEN i - 1
    ELSE IF i >= keep_recent THEN i - keep_recent
    ELSE i

RECURSIVE KeepWalkRuns(_, _, _, _, _)
\* a walk that counts a run of request and result turns as one unit, however
\* many groups it holds
KeepWalkRuns(view, i, n_keep, acc, keep_recent) ==
    IF i = 0 THEN Len(view)
    ELSE LET msg == view[i]
             added == acc \cup ResultIds(msg)
             acc2 == added \ UseIds(msg)
             first == \/ i = 1
                      \/ UseIds(msg) \cup ResultIds(msg) = {}
                      \/ UseIds(view[i - 1]) \cup ResultIds(view[i - 1]) = {}
             n2 == IF acc2 = {} /\ first THEN n_keep + 1 ELSE n_keep
         IN IF n2 >= keep_recent
            THEN i - 1
            ELSE KeepWalkRuns(view, i - 1, n2, acc2, keep_recent)

RECURSIVE KeepWalk(_, _, _, _, _)
\* The backward walk of _compress_memory_if_needed over the uncompressed view:
\* i is the turn looked at (1-based; the loop is over when it reaches 0), n_keep
\* and acc (accumulated_tool_call_ids) are the loop's variables. The result is
\* len(to_compressed_msgs) after the loop: i turns before the turn where the
\* loop breaks, or the whole view when the loop ends without a break.
KeepWalk(view, i, n_keep, acc, keep_recent) ==
    IF i = 0 THEN Len(view)
    ELSE LET msg == view[i]
             added == acc \cup ResultIds(msg)
             acc2 == added \ UseIds(msg)
             n2 == IF acc2 = {} THEN n_keep + 1 ELSE n_keep
         IN IF n2 >= keep_recent
            THEN i - 1
            ELSE KeepWalk(view, i - 1, n2, acc2, keep_recent)

\* len(to_compressed_msgs) once the recent turns have been removed
CandidateLen(view, keep_recent) == KeepWalk(view, Len(view), 0, {}, keep_recent)

\* a trigger that also fires at the threshold
TriggeredAtThreshold(n_tokens, trigger_threshold) == n_tokens >= trigger_threshold

\* if n_tokens > self.compression_config.trigger_threshold
Triggered(n_tokens, trigger_threshold) == n_tokens > trigger_threshold

\* last_chunk: the last chunk of a streamed answer, the answer itself otherwise
LastChunk(stream, res) == IF stream THEN res[Len(res)] ELSE res[1]

\* the compressed summary of a log that has none yet
NoSummary == <<>>

\* summary_template.format(**last_chunk.metadata)
SummaryText(metadata) == <<"system-info", metadata>>

\* the metadata a summarization answer (or chunk) may carry; None is none
SummaryMetas == {None, "s1"}

\* the answers of the summarization model: one response (compression_model.stream
\* is False), or a stream of chunks
ModelAnswers ==
    {[stream |-> FALSE, chunks |-> <<m>>] : m \in SummaryMetas}
    \cup {[stream |-> TRUE, chunks |-> c] :
             c \in UNION {[1..n -> SummaryMetas] : n \in 1..MaxChunks}}

\* the token counts the token counter reports, and the thresholds configured
TokenCounts == {400, 500}
Thresholds == {400, 600}

\* the record of a run that has not happened (any other operation resets it)
NoCompress ==
    [outcome |-> "none", read |-> FALSE, view |-> <<>>, ncand |-> 0,
     n_tokens |-> 0, called |-> FALSE, metadata |-> None]

\* a run that compresses the most recent turns of the view
CandidatesRecent(view, ncand) ==
    {view[k] : k \in (Len(view) - ncand + 1)..Len(view)}

\* the turns _compress_memory_if_needed may compress: a prefix of the view
Candidates(view, ncand) == {view[k] : k \in 1..ncand}

\* marking without looking at the answer's metadata
CompressMarkAlways(metadata, log, ids) == UpdateMessagesMark(log, ids, COMPRESSED)

\* lines 1063-1075: the marks after the answer has been looked at
CompressMarks(metadata, log, ids) ==
    IF metadata # None THEN UpdateMessagesMark(log, ids, COMPRESSED) ELSE log

\* The end of _compress_memory_if_needed() (lines 1017-1088), n_tokens being
\* the token count and ran the record of the run so far
CompressTriggered(n_tokens, ids, ran) ==
    IF ~Triggered(n_tokens, compression_config.trigger_threshold)
    THEN /\ lastCompress' = [ran EXCEPT !.outcome = "below", !.n_tokens = n_tokens]
         /\ UNCHANGED <<memory, summary>>
    ELSE \E res \in ModelAnswers :
            LET metadata == LastChunk(res.stream, res.chunks)
            IN /\ memory' = CompressMarks(metadata, memory, ids)
               /\ summary' = IF metadata # None
                             THEN SummaryText(metadata) ELSE summary
               /\ lastCompress' =
                    [ran EXCEPT
                       !.outcome = IF metadata # None THEN "compressed" ELSE "failed",
                       !.n_tokens = n_tokens, !.called = TRUE,
                       !.metadata = metadata]

\* _compress_memory_if_needed(); the token counter's and the summarization
\* model's answers are inputs
CompressMemoryIfNeeded ==
    /\ UNCHANGED <<ragVars, compaction>>
    /\ pc = "idle"
    /\ Len(memory) <= MaxLog
    /\ UNCHANGED <<compression_config, pc, replyVars>>
    /\ IF ~compression_config.configured \/ ~compression_config.enable
       THEN /\ lastCompress' = [NoCompress EXCEPT !.outcome = "disabled"]
            /\ UNCHANGED <<memory, summary>>
       ELSE LET idx == GetMemoryIdx(memory, COMPRESSED)
                view == GetMemory(memory, COMPRESSED)
                ncand == CandidateLen(view, compression_config.keep_recent)
                ids == Candidates(idx, ncand)
                ran == [NoCompress EXCEPT !.read = TRUE, !.view = idx,
                                          !.ncand = ncand]
            IN IF ncand = 0
               THEN /\ lastCompress' = [ran EXCEPT !.outcome = "empty"]
                    /\ UNCHANGED <<memory, summary>>
               ELSE \E n_tokens \in TokenCounts :
                        CompressTriggered(n_tokens, ids, ran)

----------------------------------------------------------------------------
(* observe *)

\* the identifiers of the tool requests in the log
RequestedIds(log) == UNION {UseIds(log[i]) : i \in 1..Len(log)}

\* the identifiers of the tool results in the log
AnsweredIds(log) == UNION {ResultIds(log[i]) : i \in 1..Len(log)}

\* a text turn
TextMsg(role) == Msg(role, "text", TRUE, <<>>, <<>>, None)

\* an assistant turn holding n tool requests with fresh identifiers
RequestMsg(first, n) ==
    Msg("assistant", "request", FALSE,
        [k \in 1..n |-> ToolUseBlock(first + k - 1, "tool", "args")], <<>>, None)

\* a system turn holding the tool result of request id
ResultMsg(id, name, output) ==
    Msg("system", "result", FALSE, <<>>, <<ToolResultBlock(id, name, output)>>, None)

\* the turns observe() is handed: a text turn, a turn with one or two new tool
\* requests, or the result of a request in the log that has none yet
ObservedMsgs(log) ==
    LET used == Cardinality(RequestedIds(log))
    IN {TextMsg("user")}
       \cup {RequestMsg(used + 1, n) : n \in {m \in 1..2 : used + m <= MaxIds}}
       \cup {ResultMsg(id, "tool", <<"data", 1>>) : id \in RequestedIds(log) \ AnsweredIds(log)}

\* observe(msg): await self.memory.add(msg)
Observe ==
    /\ UNCHANGED <<ragVars, compaction>>
    /\ pc = "idle"
    /\ Len(memory) < MaxLog
    /\ \E msg \in ObservedMsgs(memory) : memory' = MemoryAdd(memory, msg, NoMark)
    /\ lastCompress' = NoCompress
    /\ UNCHANGED <<summary, compression_config, pc, replyVars>>

----------------------------------------------------------------------------
(* reply: the setup phase *)

\* finish_function_name
finish_function_name == "generate_response"

\* reply's locals before the loop (lines 389, 406, 413-414)
LoopStart(structured_model) ==
    [tool_choice |-> IF structured_model # None THEN "required" ELSE None,
     structured_output |-> None, reply_msg |-> NoMsg, iters |-> 0]

\* a setup that registers the finishing tool without looking for it
SetupToolkitAgain(tk, structured_model) ==
    IF structured_model # None
    THEN [finish |-> tk.finish + 1, extended_model |-> structured_model]
    ELSE [finish |-> 0, extended_model |-> None]

\* lines 394-409: the finishing tool is registered if it is not in the toolkit and
\* bound to the schema, or removed
SetupToolkit(tk, structured_model) ==
    IF structured_model # None
    THEN [finish |-> IF tk.finish = 0 THEN 1 ELSE tk.finish,
          extended_model |-> structured_model]
    ELSE [finish |-> 0, extended_model |-> None]

\* the record of a reply call that has done nothing yet; the hints used by
\* earlier prompts are kept
HistoryStart(h) == [h EXCEPT !.reasoned = 0, !.summarized = 0, !.validated = None]

\* the reply call ends: it returns msg, or an exception or a cancellation leaves it
Exit(status, msg) ==
    /\ pc' = "idle"
    /\ result' = [status |-> status, msg |-> msg]

\* a loop that takes one iteration more than max_iters
AfterIterationOneMore(iters) == IF iters <= agent.max_iters THEN "reason" ELSE "summarize"

\* where the loop goes after an iteration that did not break (line 415, 498)
AfterIteration(iters) == IF iters < agent.max_iters THEN "reason" ELSE "summarize"

\* reply(msg, structured_model) up to the loop (lines 379-414), for an agent
\* without long-term memory and knowledge bases (lines 383-386 do nothing);
\* replies are started on logs of at most MaxStartLog turns that hold no tool
\* request
ReplyStart(structured_model) ==
    /\ UNCHANGED <<ragVars, compaction>>
    /\ pc = "idle"
    /\ Len(memory) <= MaxStartLog
    /\ RequestedIds(memory) = {}
    /\ memory' = MemoryAdd(memory, TextMsg("user"), NoMark)
    /\ required' = structured_model
    /\ toolkit' = SetupToolkit(toolkit, structured_model)
    /\ loop' = LoopStart(structured_model)
    /\ msg_reasoning' = NoMsg
    /\ calls' = <<>>
    /\ history' = [HistoryStart(history) EXCEPT
                     !.rebound = /\ structured_model # None
                                 /\ toolkit.finish > 0
                                 /\ toolkit.extended_model # structured_model]
    /\ result' = [status |-> "running", msg |-> NoMsg]
    /\ pc' = AfterIteration(0)
    /\ lastCompress' = NoCompress
    /\ UNCHANGED <<summary, compression_config, agent, hints, prompt>>

----------------------------------------------------------------------------
(* _reasoning *)

\* an entry of a prompt: a turn and its place in the log (0: not from the log)
Entry(at, turn) == [at |-> at, turn |-> turn]

\* Msg("system", self.sys_prompt, "system")
SysMsg == Msg("system", "sys_prompt", TRUE, <<>>, <<>>, None)

\* the guidance turn of plan_notebook.get_current_hint()
PlanHintMsg == Msg("user", "plan_hint", TRUE, <<>>, <<>>, None)

\* the turns of a log, each with its place, that get_memory(exclude_mark) returns
LogEntries(log, exclude_mark) ==
    LET idx == GetMemoryIdx(log, exclude_mark)
    IN [k \in 1..Len(idx) |-> Entry(idx[k], log[idx[k]])]

\* the exclude_mark argument of get_memory in _reasoning (line 536: none)
ReasoningExclude == None

\* a reasoning prompt that leaves the hint messages out
ReasoningMsgsNoHints(log, hintmsgs) ==
    <<Entry(0, SysMsg)>> \o LogEntries(log, ReasoningExclude)

\* lines 533-540: the turns handed to the formatter
ReasoningMsgs(log, hintmsgs) ==
    <<Entry(0, SysMsg)>> \o LogEntries(log, ReasoningExclude)
        \o [k \in 1..Len(hintmsgs) |-> Entry(0, hintmsgs[k])]

\* the places in the log of the hint-marked turns of a reasoning prompt
HintsAt(p) ==
    IF p.step # "reasoning" THEN {}
    ELSE {p.msgs[k].at : k \in {j \in 1..Len(p.msgs) : p.msgs[j].turn.mark = HINT}}

\* toolkit.get_json_schemas(): the names of the tools the model is offered
JsonSchemas(tk) ==
    IF tk.finish > 0 THEN {"tool", finish_function_name} ELSE {"tool"}

\* the outcomes of plan_notebook.get_current_hint(): it is called only with a
\* plan notebook, and raises or returns a guidance turn (a notebook that
\* returns None leaves the state an agent without notebook has)
PlanOutcomes == IF agent.plan_notebook THEN {"raise", "hint"} ELSE {"skip"}

\* _reasoning, lines 522-542: the plan hint, the prompt, the hints cleared.
\* plan is the plan notebook's outcome, fmt the formatter's ("raise": an
\* exception or a cancellation raised at that await)
ReasoningPrompt(plan, fmt) ==
    /\ UNCHANGED <<ragVars, compaction>>
    /\ pc = "reason"
    /\ loop' = [loop EXCEPT !.iters = @ + 1]
    /\ lastCompress' = NoCompress
    /\ UNCHANGED <<summary, compression_config, agent, required, toolkit,
                   msg_reasoning, calls>>
    /\ LET added == IF plan = "hint"
                    THEN MemoryAdd(memory, PlanHintMsg, HINT) ELSE memory
       IN IF plan = "raise"
          THEN /\ Exit("raised", NoMsg)
               /\ history' = [history EXCEPT !.reasoned = @ + 1]
               /\ UNCHANGED <<memory, hints, prompt>>
          ELSE IF fmt = "raise"
          THEN /\ Exit("raised", NoMsg)
               /\ memory' = added
               /\ history' = [history EXCEPT !.reasoned = @ + 1]
               /\ UNCHANGED <<hints, prompt>>
          ELSE /\ memory' = added
               /\ prompt' = [step |-> "reasoning", msgs |-> ReasoningMsgs(added, hints),
                             tools |-> JsonSchemas(toolkit),
                             tool_choice |-> loop.tool_choice]
               /\ hints' = <<>>
               /\ history' = [history EXCEPT !.reasoned = @ + 1,
                                             !.used = @ \cup HintsAt(prompt')]
               /\ pc' = "model"
               /\ UNCHANGED result

\* the arguments the model gives the finishing tool, and model_validate(kwargs)
\* .model_dump(): "bad" does not validate, "empty" validates to an empty mapping
FinishInputs == {"bad", "empty", "a1", "a2"}
ModelDump(kwargs) ==
    CASE kwargs = "empty" -> "{}"
      [] kwargs = "a1" -> "d1"
      [] kwargs = "a2" -> "d2"
      [] OTHER -> None

\* a tool request of the model: an ordinary tool, or the finishing tool
T == [name |-> "tool", input |-> "args"]
F(kwargs) == [name |-> finish_function_name, input |-> kwargs]

\* the tool requests of one model response without text: ordinary tools,
\* and, when the finishing tool is among the schemas, calls of it
ToolUses(tk) ==
    IF tk.finish = 0 THEN {<<T>>, <<T, T>>}
    ELSE {<<T>>, <<F("bad")>>, <<F("empty")>>, <<F("a1")>>, <<T, F("a1")>>,
          <<F("a1"), F("a2")>>}

\* the tool requests of a response that holds text too
ToolUsesWithText(tk) ==
    IF tk.finish = 0 THEN {<<>>}
    ELSE {<<>>, <<F("empty")>>, <<F("a1")>>, <<F("a1"), F("a2")>>}

\* the content of a model response under a tool_choice: "none" forbids tool
\* requests, "required" demands one; a model may ignore the tool_choice
Contents(tool_choice, tk) ==
    {c \in [text : {FALSE}, tool_use : ToolUses(tk)]
           \cup [text : {TRUE}, tool_use : ToolUsesWithText(tk)] :
        agent.model = "honours" =>
           /\ tool_choice = "none" => c.tool_use = <<>>
           /\ tool_choice = "required" => c.tool_use # <<>>}

\* the content a response holds so far when its consumption is cut short:
\* nothing yet, text, or (unless tool requests are forbidden) a tool request
PartialContents(tool_choice) ==
    [text : BOOLEAN, tool_use : {<<>>}]
        \cup (IF tool_choice = "none" THEN {}
              ELSE {[text |-> FALSE, tool_use |-> <<T>>]})

\* msg = Msg(name=self.name, content=..., role="assistant"), the requests
\* numbered from first
AssistantMsg(c, first) ==
    Msg("assistant", "assistant", c.text,
        [k \in 1..Len(c.tool_use) |->
            ToolUseBlock(first + k - 1, c.tool_use[k].name, c.tool_use[k].input)],
        <<>>, None)

RECURSIVE AddAll(_, _)
\* memory.add for each turn of a sequence
AddAll(log, msgs) ==
    IF msgs = <<>> THEN log
    ELSE AddAll(MemoryAdd(log, Head(msgs), NoMark), Tail(msgs))

\* a cancellation that synthesizes no result
FakeResultsNone(msg) == <<>>

\* a cancellation that synthesizes two results for each tool request
FakeResultsTwice(msg) ==
    [k \in 1..(2 * Len(msg.tool_use)) |->
        LET use == msg.tool_use[((k - 1) % Len(msg.tool_use)) + 1]
        IN ResultMsg(use.id, use.name, <<"interrupted", 0>>)]

\* lines 606-625: an interrupted result for each tool request of msg
FakeResults(msg) ==
    [k \in 1..Len(msg.tool_use) |->
        ResultMsg(msg.tool_use[k].id, msg.tool_use[k].name, <<"interrupted", 0>>)]

\* the metadata of a chunk that carries none
NoMetadata == [success |-> FALSE, structured_output |-> None]

\* the _acting coroutines reply builds for the requests of msg (lines 420-425)
Futures(msg) ==
    [k \in 1..Len(msg.tool_use) |->
        [id |-> msg.tool_use[k].id, name |-> msg.tool_use[k].name,
         input |-> msg.tool_use[k].input, st |-> "new", n |-> 0,
         output |-> <<>>, metadata |-> NoMetadata, ret |-> None]]

\* _reasoning, lines 544-626: the model call and its response. outcome "raise":
\* the call raises (or is cancelled); "ok"; "cancelled": cancelled while the
\* response is consumed, c being the content so far; "error": an exception there
ReasoningModel(outcome, c) ==
    /\ UNCHANGED <<ragVars, compaction>>
    /\ pc = "model"
    /\ IF outcome \in {"cancelled", "error"}
       THEN c \in PartialContents(loop.tool_choice)
       ELSE c \in Contents(loop.tool_choice, toolkit)
    /\ lastCompress' = NoCompress
    /\ UNCHANGED <<summary, compression_config, agent, hints, required, toolkit,
                   loop, prompt, history>>
    /\ LET msg == AssistantMsg(c, Cardinality(RequestedIds(memory)) + 1)
           added == MemoryAdd(memory, msg, NoMark)
       IN CASE outcome = "raise" ->
                 /\ Exit("raised", NoMsg)
                 /\ UNCHANGED <<memory, msg_reasoning, calls>>
            [] outcome = "ok" ->
                 /\ memory' = added
                 /\ msg_reasoning' = msg
                 /\ calls' = Futures(msg)
                 /\ pc' = "act"
                 /\ UNCHANGED result
            [] outcome = "cancelled" ->
                 /\ memory' = AddAll(added, FakeResults(msg))
                 /\ Exit("cancelled", NoMsg)
                 /\ UNCHANGED <<msg_reasoning, calls>>
            [] outcome = "error" ->
                 /\ memory' = added
                 /\ Exit("raised", NoMsg)
                 /\ UNCHANGED <<msg_reasoning, calls>>

----------------------------------------------------------------------------
(* _acting and generate_response *)

\* a finishing tool that accepts its arguments without validating them
GenerateResponseUnvalidated(required_model, kwargs) ==
    [content |-> "success", success |-> TRUE, structured_output |-> ModelDump(kwargs)]

\* a finishing tool that validates its arguments with no schema pending
GenerateResponseDumps(required_model, kwargs) ==
    IF ModelDump(kwargs) = None
    THEN [content |-> "validation_error", success |-> FALSE,
          structured_output |-> "{}"]
    ELSE [content |-> "success", success |-> TRUE,
          structured_output |-> ModelDump(kwargs)]

\* generate_response(**kwargs): the text and the metadata of its ToolResponse
GenerateResponse(required_model, kwargs) ==
    IF required_model # None
    THEN IF ModelDump(kwargs) = None
         THEN [content |-> "validation_error", success |-> FALSE,
               structured_output |-> "{}"]
         ELSE [content |-> "success", success |-> TRUE,
               structured_output |-> ModelDump(kwargs)]
    ELSE [content |-> "success", success |-> TRUE, structured_output |-> None]

\* the metadata of a ToolResponse of generate_response
Metadata(response) ==
    [success |-> response.success, structured_output |-> response.structured_output]

\* coroutines that all run at once, whatever parallel_tool_calls is
RunnableAtOnce(k) == calls[k].st \in {"new", "run"}

\* the _acting coroutine k may take a step: it has not ended, and either the
\* tools run in parallel (asyncio.gather) or every earlier coroutine has been
\* awaited to its end (lines 427-431)
Runnable(k) ==
    /\ calls[k].st \in {"new", "run"}
    /\ agent.parallel_tool_calls \/ \A j \in 1..(k - 1) : calls[j].st = "done"

\* a result turn that holds the placeholder payload of line 647
RecordResultPlaceholder(log, call, output) ==
    MemoryAdd(log, ResultMsg(call.id, call.name, <<>>), NoMark)

\* the finally clause of _acting: the result turn, with the payload so far
RecordResult(log, call, output) ==
    MemoryAdd(log, ResultMsg(call.id, call.name, output), NoMark)

RECURSIVE RecordAll(_, _, _)
\* the finally clauses of the coroutines ks of cs, in the order of the requests
RecordAll(log, cs, ks) ==
    IF ks = {} THEN log
    ELSE LET k == CHOOSE j \in ks : \A i \in ks : j <= i
         IN RecordAll(RecordResult(log, cs[k], cs[k].output), cs, ks \ {k})

\* the payload of the result turn when the interruption is raised before the
\* chunk is stored
InterruptedPayloadBefore(call, output) == call.output

\* the payload of the result turn when a chunk is flagged interrupted: the chunk
\* is stored (lines 656-658) before the cancellation is raised (lines 663-664)
InterruptedPayload(call, output) == output

\* what a tool may do next: the finishing tool yields its one ToolResponse; an
\* ordinary tool yields a chunk or an interrupted chunk, or raises; "cancel":
\* the reply task is cancelled while the tool is awaited
ChunkKinds(call) ==
    IF call.name = finish_function_name
    THEN IF call.n = 0 THEN {"response"} ELSE {}
    ELSE (IF call.n < MaxToolChunks THEN {"data", "interrupted"} ELSE {})
             \cup {"error", "cancel"}

\* the coroutines of a reply call that an exception or a cancellation raised by
\* one of them has left: asyncio.gather does not cancel the others
Orphaned == pc = "idle" /\ result.status \in {"raised", "cancelled", "interrupted"}

\* an exception leaves _acting: it leaves reply too, unless reply has been left
Propagate(status) ==
    IF pc = "act" THEN Exit(status, NoMsg) ELSE UNCHANGED <<pc, result>>

\* _acting, lines 652-682: one turn of `async for chunk in tool_res` for
\* coroutine k, the chunk being of the given kind
ActChunk(k, kind) ==
    /\ UNCHANGED <<ragVars, compaction>>
    /\ pc = "act" \/ Orphaned
    /\ k \in 1..Len(calls)
    /\ Runnable(k)
    /\ kind \in ChunkKinds(calls[k])
    /\ kind = "cancel" => pc = "act"
    /\ lastCompress' = NoCompress
    /\ UNCHANGED <<summary, compression_config, agent, hints, required, toolkit,
                   loop, msg_reasoning, prompt, history>>
    /\ LET call == calls[k]
           meta == GenerateResponse(required, call.input)
           output == <<IF kind = "response" THEN meta.content ELSE kind, call.n + 1>>
           active == {j \in 1..Len(calls) : Runnable(j)}
       IN CASE kind = "data" ->
                 /\ calls' = [calls EXCEPT ![k].st = "run", ![k].n = @ + 1,
                                           ![k].output = output]
                 /\ UNCHANGED <<memory, pc, result>>
            [] kind = "interrupted" ->
                 /\ calls' = [calls EXCEPT ![k].st = "cancelled", ![k].n = @ + 1,
                                           ![k].output = InterruptedPayload(call, output)]
                 /\ memory' = RecordResult(memory, call, InterruptedPayload(call, output))
                 /\ Propagate("cancelled")
            [] kind = "error" ->
                 /\ calls' = [calls EXCEPT ![k].st = "raised"]
                 /\ memory' = RecordResult(memory, call, call.output)
                 /\ Propagate("raised")
            [] kind = "cancel" ->
                 /\ calls' = [j \in 1..Len(calls) |->
                                IF j \in active THEN [calls[j] EXCEPT !.st = "cancelled"]
                                ELSE calls[j]]
                 /\ memory' = RecordAll(memory, calls, active)
                 /\ Propagate("cancelled")
            [] kind = "response" /\ meta.success ->
                 /\ calls' = [calls EXCEPT ![k].st = "done", ![k].n = @ + 1,
                                           ![k].output = output,
                                           ![k].metadata = Metadata(meta),
                                           ![k].ret = meta.structured_output]
                 /\ memory' = RecordResult(memory, call, output)
                 /\ UNCHANGED <<pc, result>>
            [] kind = "response" /\ ~meta.success ->
                 /\ calls' = [calls EXCEPT ![k].st = "run", ![k].n = @ + 1,
                                           ![k].output = output,
                                           ![k].metadata = Metadata(meta)]
                 /\ UNCHANGED <<memory, pc, result>>

\* _acting, lines 678-682: the outcome sequence of coroutine k is exhausted
ActEnd(k) ==
    /\ UNCHANGED <<ragVars, compaction>>
    /\ pc = "act" \/ Orphaned
    /\ k \in 1..Len(calls)
    /\ Runnable(k)
    /\ calls[k].name = finish_function_name => calls[k].n > 0
    /\ calls' = [calls EXCEPT ![k].st = "done"]
    /\ memory' = RecordResult(memory, calls[k], calls[k].output)
    /\ lastCompress' = NoCompress
    /\ UNCHANGED <<summary, compression_config, pc, agent, hints, required,
                   toolkit, loop, msg_reasoning, prompt, history, result>>

----------------------------------------------------------------------------
(* reply: the exit conditions, and _summarizing *)

\* the truth value Python gives a structured output: None and {} are false
Truthy(v) == v # None /\ v # "{}"

\* line 437: structured_outputs = [_ for _ in structured_outputs if _]
StructuredOutputs(cs) == SelectSeq([k \in 1..Len(cs) |-> cs[k].ret], Truthy)

\* the hint of lines 457-462, added to the log marked as a hint
TextHintMsg == Msg("user", "text_hint", TRUE, <<>>, <<>>, None)

\* the hint of lines 476-483, added to the hint messages
ReminderMsg == Msg("user", "reminder", TRUE, <<>>, <<>>, None)

\* lines 448-453: the reply made of the text blocks of the reasoning turn
TextReply(msg, structured_output) ==
    Msg("assistant", "assistant", msg.text, <<>>, <<>>, structured_output)

\* the calls of the finishing tool in the turn that validate under the schema
ValidCalls(cs, required_model) ==
    {k \in 1..Len(cs) : /\ cs[k].name = finish_function_name
                        /\ required_model # None
                        /\ ModelDump(cs[k].input) # None}

\* the validated data of the latest valid call of the finishing tool so far
LatestValidated(cs, required_model, before) ==
    LET valid == ValidCalls(cs, required_model)
    IN IF valid = {} THEN before
       ELSE ModelDump(cs[CHOOSE k \in valid : \A j \in valid : j <= k].input)

\* line 493, msg_reasoning.metadata = structured_output: the turn was appended
\* to the log by _reasoning, as its last turn; a memory that keeps the Msg
\* objects it is given holds the turn that is written to, one that copies them
\* does not
LogAfterPlainExit(log, structured_output) ==
    IF agent.memory = "shares"
    THEN [log EXCEPT ![Len(log)].metadata = structured_output]
    ELSE log

\* a loop that ends with any turn that holds text
ExitsPlainOnText(msg) == msg.text

\* line 491: with no schema pending, a turn without tool requests ends the loop
ExitsPlain(msg) == msg.tool_use = <<>>

\* reply, lines 433-495: the exit conditions after the tools of a step
Evaluate ==
    /\ UNCHANGED <<ragVars, compaction>>
    /\ pc = "act"
    /\ \A k \in 1..Len(calls) : calls[k].st = "done"
    /\ lastCompress' = NoCompress
    /\ history' = [history EXCEPT
                     !.validated = LatestValidated(calls, required, @)]
    /\ UNCHANGED <<summary, compression_config, agent, toolkit, msg_reasoning,
                   calls, prompt>>
    /\ LET outs == StructuredOutputs(calls)
           has_text == msg_reasoning.text
           has_tool_use == msg_reasoning.tool_use # <<>>
       IN IF required # None
          THEN IF outs # <<>>
               THEN IF has_text
                    THEN LET reply_msg == TextReply(msg_reasoning, outs[Len(outs)])
                         IN /\ loop' = [loop EXCEPT
                                          !.structured_output = outs[Len(outs)],
                                          !.reply_msg = reply_msg]
                            /\ Exit("returned", reply_msg)
                            /\ UNCHANGED <<memory, hints, required>>
                    ELSE /\ loop' = [loop EXCEPT
                                       !.structured_output = outs[Len(outs)],
                                       !.tool_choice = "none"]
                         /\ memory' = MemoryAdd(memory, TextHintMsg, HINT)
                         /\ required' = None
                         /\ pc' = AfterIteration(loop.iters)
                         /\ UNCHANGED <<hints, result>>
               ELSE IF ~has_tool_use
                    THEN /\ hints' = Append(hints, ReminderMsg)
                         /\ loop' = [loop EXCEPT !.tool_choice = "required"]
                         /\ pc' = AfterIteration(loop.iters)
                         /\ UNCHANGED <<memory, required, result>>
                    ELSE /\ pc' = AfterIteration(loop.iters)
                         /\ UNCHANGED <<memory, hints, required, loop, result>>
          ELSE IF ExitsPlain(msg_reasoning)
               THEN LET reply_msg == [msg_reasoning EXCEPT
                                        !.metadata = loop.structured_output]
                    IN /\ loop' = [loop EXCEPT !.reply_msg = reply_msg]
                       /\ Exit("returned", reply_msg)
                       /\ memory' = LogAfterPlainExit(memory, loop.structured_output)
                       /\ UNCHANGED <<hints, required>>
               ELSE /\ pc' = AfterIteration(loop.iters)
                    /\ UNCHANGED <<memory, hints, required, loop, result>>

\* the instruction turn of _summarizing (lines 696-700)
SummarizeHintMsg == Msg("user", "summarize_hint", TRUE, <<>>, <<>>, None)

\* lines 707-710: compressed turns are excluded when compression is enabled
SummarizingExclude ==
    IF compression_config.configured /\ compression_config.enable
    THEN COMPRESSED ELSE None

\* a summarizing prompt without the instruction turn
SummarizingMsgsNoHint(log) ==
    <<Entry(0, SysMsg)>> \o LogEntries(log, SummarizingExclude)

\* lines 703-714: the turns handed to the formatter by _summarizing
SummarizingMsgs(log) ==
    <<Entry(0, SysMsg)>> \o LogEntries(log, SummarizingExclude)
        \o <<Entry(0, SummarizeHintMsg)>>

\* reply, lines 497-513, with _summarizing: the reply after the budget is
\* used up. outcome "raise": the formatter or the model call raises
Summarizing(outcome, text) ==
    /\ UNCHANGED <<ragVars, compaction>>
    /\ pc = "summarize"
    /\ lastCompress' = NoCompress
    /\ history' = [history EXCEPT !.summarized = @ + 1]
    /\ UNCHANGED <<summary, compression_config, agent, hints, required, toolkit,
                   msg_reasoning, calls>>
    /\ IF outcome = "raise"
       THEN /\ Exit("raised", NoMsg)
            /\ UNCHANGED <<memory, loop, prompt>>
       ELSE LET reply_msg == Msg("assistant", "assistant", text, <<>>, <<>>,
                                 loop.structured_output)
            IN /\ prompt' = [step |-> "summarizing", msgs |-> SummarizingMsgs(memory),
                             tools |-> {}, tool_choice |-> None]
               /\ memory' = MemoryAdd(memory, reply_msg, NoMark)
               /\ loop' = [loop EXCEPT !.reply_msg = reply_msg]
               /\ Exit("returned", reply_msg)

----------------------------------------------------------------------------
(* The agent after __init__ *)

\* the values of CompressionConfig.keep_recent: any integer is accepted
KeepValues == 0..MaxKeep

\* compression_config=None
NoConfig ==
    [configured |-> FALSE, enable |-> FALSE, keep_recent |-> 0,
     trigger_threshold |-> 0]

\* the compression_config argument of __init__
CompressionConfigs ==
    {NoConfig, [NoConfig EXCEPT !.configured = TRUE]}
    \cup [configured : {TRUE}, enable : {TRUE},
          keep_recent : KeepValues, trigger_threshold : Thresholds]

\* no _compress_memory_if_needed call is awaiting, none has been
NoCompaction ==
    [pc |-> "idle", outcome |-> "none", view |-> <<>>, ids |-> {}, n_tokens |-> 0,
     start_len |-> 0]

\* no _retrieve_from_knowledge call has been made
NoRetrieval ==
    [pc |-> "idle", status |-> "none", msg |-> [kind |-> "none", msgs |-> <<>>],
     query |-> <<>>, stream_tmp |-> TRUE, stream_before |-> TRUE,
     rewrite |-> "none", asked |-> <<>>]

\* __init__: the log and the hint messages are empty, nothing is pending
InitAgent ==
    /\ memory = <<>>
    /\ summary = NoSummary
    /\ lastCompress = NoCompress
    /\ pc = "idle"
    /\ hints = <<>>
    /\ required = None
    /\ toolkit = [finish |-> 0, extended_model |-> None]
    /\ loop = LoopStart(None)
    /\ msg_reasoning = NoMsg
    /\ calls = <<>>
    /\ prompt = [step |-> "none", msgs |-> <<>>, tools |-> {}, tool_choice |-> None]
    /\ history = [reasoned |-> 0, summarized |-> 0, validated |-> None, used |-> {},
                  rebound |-> FALSE]
    /\ result = [status |-> "none", msg |-> NoMsg]
    /\ retrieval = NoRetrieval
    /\ compaction = NoCompaction

\* an agent with any compression configuration, its log fed by observe()
InitCompact ==
    /\ InitAgent
    /\ model = [stream |-> TRUE]
    /\ compression_config \in CompressionConfigs
    /\ agent = [parallel_tool_calls |-> FALSE, plan_notebook |-> FALSE,
                max_iters |-> MaxIters, model |-> "honours",
                memory |-> "copies", knowledge |-> 0,
                enable_rewrite_query |-> FALSE]

NextCompact == Observe \/ CompressMemoryIfNeeded

SpecCompact == InitCompact /\ [][NextCompact]_vars

\* the agents that reply: one that calls its tools in turn and has compression
\* enabled, one that calls them in parallel and is built with max_iters=1, one
\* with a plan notebook
ReplyAgents ==
    {[agent |-> [parallel_tool_calls |-> FALSE, plan_notebook |-> FALSE,
                 max_iters |-> MaxIters, model |-> "honours",
                 memory |-> "copies", knowledge |-> 0,
                 enable_rewrite_query |-> FALSE],
      compression_config |-> [configured |-> TRUE, enable |-> TRUE,
                              keep_recent |-> 1, trigger_threshold |-> 400]],
     [agent |-> [parallel_tool_calls |-> TRUE, plan_notebook |-> FALSE,
                 max_iters |-> 1, model |-> "honours",
                 memory |-> "copies", knowledge |-> 0,
                 enable_rewrite_query |-> FALSE],
      compression_config |-> NoConfig],
     [agent |-> [parallel_tool_calls |-> FALSE, plan_notebook |-> TRUE,
                 max_iters |-> MaxIters, model |-> "honours",
                 memory |-> "copies", knowledge |-> 0,
                 enable_rewrite_query |-> FALSE],
      compression_config |-> NoConfig]}

Init ==
    /\ InitAgent
    /\ model = [stream |-> TRUE]
    /\ \E a \in ReplyAgents :
           /\ agent = a.agent
           /\ compression_config = a.compression_config

\* an agent whose model does not honour the tool_choice it is given
InitLoose ==
    /\ InitAgent
    /\ model = [stream |-> TRUE]
    /\ agent = [parallel_tool_calls |-> FALSE, plan_notebook |-> FALSE,
                max_iters |-> MaxIters, model |-> "ignores",
                memory |-> "copies", knowledge |-> 0,
                enable_rewrite_query |-> FALSE]
    /\ compression_config = NoConfig

\* an agent whose memory keeps the Msg objects it is given
InitShared ==
    /\ InitAgent
    /\ model = [stream |-> TRUE]
    /\ agent = [parallel_tool_calls |-> FALSE, plan_notebook |-> FALSE,
                max_iters |-> MaxIters, model |-> "honours",
                memory |-> "shares", knowledge |-> 0,
                enable_rewrite_query |-> FALSE]
    /\ compression_config = NoConfig

\* the schemas reply is given: none, or one of two result schemas
StructuredModels == {None, "schema", "schema2"}

\* the steps of a reply call that has started
ReplySteps ==
    \/ \E plan \in PlanOutcomes, fmt \in {"ok", "raise"} : ReasoningPrompt(plan, fmt)
    \/ \E outcome \in {"raise", "ok", "cancelled", "error"},
          c \in Contents(loop.tool_choice, toolkit)
                  \cup PartialContents(loop.tool_choice) : ReasoningModel(outcome, c)
    \/ \E k \in 1..Len(calls), kind \in {"data", "interrupted", "error", "cancel", "response"} :
          ActChunk(k, kind)
    \/ \E k \in 1..Len(calls) : ActEnd(k)
    \/ Evaluate
    \/ \E outcome \in {"raise", "ok"}, text \in BOOLEAN : Summarizing(outcome, text)

Next ==
    \/ \E structured_model \in StructuredModels : ReplyStart(structured_model)
    \/ ReplySteps
    \/ CompressMemoryIfNeeded

Spec == Init /\ [][Next]_vars

\* the first reply call of an agent
NextReply ==
    \/ \E structured_model \in StructuredModels :
          memory = <<>> /\ ReplyStart(structured_model)
    \/ ReplySteps

\* every await of a reply call returns or raises in the end: the event loop
\* keeps running the coroutine
SpecReply == Init /\ [][NextReply]_vars /\ WF_vars(NextReply)

\* the first reply call of the agent whose memory keeps the objects it is given
SpecShared == InitShared /\ [][NextReply]_vars

\* the first reply call of the agent whose model ignores the tool_choice
SpecLoose == InitLoose /\ [][NextReply]_vars

----------------------------------------------------------------------------
(* Properties of _compress_memory_if_needed *)

\* the latest operation was a compaction run that read the log
Ran == lastCompress.read

\* the uncompressed view the latest run read (the turns' content never changes)
RunView == [k \in 1..Len(lastCompress.view) |-> memory[lastCompress.view[k]]]

\* the turns of the log that are marked compressed
CompressedIdx(log) == {i \in 1..Len(log) : log[i].mark = COMPRESSED}

\* the elements of a sequence
Range(seq) == {seq[k] : k \in 1..Len(seq)}

\* the identifiers of tool results in view[k..] with no request in view[k..]
Unmatched(view, k) ==
    UNION {ResultIds(view[j]) : j \in k..Len(view)}
        \ UNION {UseIds(view[j]) : j \in k..Len(view)}

\* the valid cut boundaries of a view: the turns a unit starts at
ValidBoundaries(view) == {k \in 1..Len(view) : Unmatched(view, k) = {}}

\* the retained suffix of the run's view, as positions of the view
Retained == (lastCompress.ncand + 1)..Len(lastCompress.view)

\* C1: after a compaction run no tool_result turn differs in compressed status
\* from the turn holding its tool_request, and the cut between the candidate
\* range and the retained suffix is not between a request and its result,
\* for every keep_recent
C1_PairAtomicity ==
    Ran =>
      /\ \A i, j \in 1..Len(memory) :
            UseIds(memory[i]) \cap ResultIds(memory[j]) # {}
              => ((memory[i].mark = COMPRESSED) <=> (memory[j].mark = COMPRESSED))
      /\ lastCompress.outcome = "compressed" =>
            \A i \in 1..lastCompress.ncand : \A j \in Retained :
                UseIds(RunView[i]) \cap ResultIds(RunView[j]) = {}

\* C2: the most recent keep_recent units are never candidates: the retained
\* suffix holds keep_recent units, or the whole view when the view holds
\* keep_recent units or fewer, and then nothing is summarized or marked
C2_RetainRecent ==
    Ran =>
      LET units == Cardinality(ValidBoundaries(RunView))
          keep == compression_config.keep_recent
      IN IF units <= keep
         THEN /\ lastCompress.ncand = 0
              /\ ~lastCompress.called
              /\ \A k \in Range(lastCompress.view) : memory[k].mark # COMPRESSED
         ELSE keep >= 1 =>
                Cardinality(ValidBoundaries(RunView) \cap Retained) = keep

\* a view made of standalone turns and of groups: a request turn followed by
\* turns holding results of its requests
Grouped(view) ==
    \A j \in 1..Len(view) :
        ResultIds(view[j]) # {} =>
            /\ UseIds(view[j]) = {}
            /\ \E i \in 1..(j - 1) :
                  /\ ResultIds(view[j]) \subseteq UseIds(view[i])
                  /\ \A m \in (i + 1)..j :
                        /\ ResultIds(view[m]) # {}
                        /\ ResultIds(view[m]) \subseteq UseIds(view[i])

\* the first turns of the units of a grouped view
UnitStarts(view) == {k \in 1..Len(view) : ResultIds(view[k]) = {}}

\* the n-th largest element of a set of numbers
NthFromEnd(S, n) == CHOOSE x \in S : Cardinality({y \in S : y >= x}) = n

\* C3: a request turn and the result turns answering it take one keep_recent
\* slot: in a view of standalone turns and request/result groups the retained
\* suffix starts at the first turn of the keep_recent-th unit from the end
C3_GroupIsOneUnit ==
    LET keep == compression_config.keep_recent
    IN (Ran /\ keep >= 1 /\ Grouped(RunView)
            /\ Cardinality(UnitStarts(RunView)) >= keep)
         => lastCompress.ncand + 1 = NthFromEnd(UnitStarts(RunView), keep)

\* keep_recent = 2 and the view [A(text), B(request 1), C(result 1), D(text)]:
\* exactly [A] has been compressed
C3_Witness ==
    /\ compression_config.keep_recent = 2
    /\ lastCompress.outcome = "compressed"
    /\ lastCompress.view = <<1, 2, 3, 4>>
    /\ memory[1].kind = "text" /\ memory[4].kind = "text"
    /\ memory[2].kind = "request" /\ memory[3].kind = "result"
    /\ ResultIds(memory[3]) = UseIds(memory[2])
    /\ CompressedIdx(memory) = {1}

\* the step is a run of _compress_memory_if_needed
CompressStep == lastCompress'.outcome # "none"

\* C4: a run with compaction enabled and candidates calls the summarization
\* model exactly when the token count is above trigger_threshold, marks
\* nothing without calling it, and on an answer with metadata stores its
\* summary and marks exactly the candidates; a disabled or unconfigured run
\* reads, calls and marks nothing
C4_Trigger ==
    [][CompressStep =>
        LET r == lastCompress'
            enabled == compression_config.configured /\ compression_config.enable
            cand == Candidates(r.view, r.ncand)
        IN /\ ~enabled => /\ ~r.read /\ ~r.called
                           /\ memory' = memory /\ summary' = summary
           /\ r.called => enabled /\ r.ncand > 0
           /\ (enabled /\ r.ncand > 0) =>
                 (r.called <=> r.n_tokens > compression_config.trigger_threshold)
           /\ ~r.called => memory' = memory /\ summary' = summary
           /\ (r.called /\ r.metadata # None) =>
                 /\ summary' = SummaryText(r.metadata)
                 /\ memory' = UpdateMessagesMark(memory, cand, COMPRESSED)
                 /\ CompressedIdx(memory') = CompressedIdx(memory) \cup cand
                 /\ cand # {} /\ cand \cap CompressedIdx(memory) = {}]_vars

\* a run with cost 500 and threshold 400 has compressed its candidates
C4_Witness ==
    /\ lastCompress.outcome = "compressed"
    /\ lastCompress.n_tokens = 500
    /\ compression_config.trigger_threshold = 400
    /\ CompressedIdx(memory) = Candidates(lastCompress.view, lastCompress.ncand)

\* C5: when the summarization answer (its last chunk) has no metadata, no mark
\* changes, the stored summary stays, and the next run reads the same view
C5_FailureLeavesState ==
    [][(CompressStep /\ lastCompress'.called /\ lastCompress'.metadata = None) =>
        /\ memory' = memory
        /\ summary' = summary
        /\ GetMemoryIdx(memory', COMPRESSED) = lastCompress'.view]_vars

\* a failed run after an earlier summary was stored: the summary is still there
C5_Witness ==
    /\ lastCompress.outcome = "failed"
    /\ summary # NoSummary
    /\ CompressedIdx(memory) # {}

----------------------------------------------------------------------------
(* Properties of reply and _reasoning *)

\* the turns of a prompt that carry the compressed mark
CompressedIn(p) == {k \in 1..Len(p.msgs) : p.msgs[k].turn.mark = COMPRESSED}

\* C6: no turn marked compressed is part of the prompt of a reasoning step
C6_PromptExcludesCompressed ==
    prompt.step = "reasoning" => CompressedIn(prompt) = {}

\* the hint messages and the turns of the log marked as hints are all gone
HintChannelEmpty(hintmsgs, log) ==
    /\ hintmsgs = <<>>
    /\ \A i \in 1..Len(log) : log[i].mark # HINT

\* a step that ends _reasoning: it returns its turn, raises or is cancelled
ReasoningEnds == pc \in {"reason", "model"} /\ pc' \notin {"reason", "model"}

\* C7: when a reasoning step ends, normally, by an exception or by a
\* cancellation, no hint is left in the hint messages or in the log
C7_HintChannelDrained ==
    [][ReasoningEnds => HintChannelEmpty(hints', memory')]_vars

\* a step that builds the prompt of a reasoning step
PromptBuilt == pc = "reason" /\ pc' = "model"

\* C8: a prompt holds no hint turn that an earlier prompt held, and the hint
\* messages it held are gone once it is built
C8_HintsOneShot ==
    [][PromptBuilt =>
        /\ HintsAt(prompt') \cap history.used = {}
        /\ hints' = <<>>]_vars

\* C9: a reply returned by a call in which the finishing tool was called with
\* arguments that validate has the data of the latest such call as metadata
C9_StructuredDelivery ==
    (result.status = "returned" /\ history.validated # None) =>
        result.msg.metadata = history.validated

\* C10: a reply call takes at most max_iters reasoning steps and at most one
\* summarizing call, the latter only after max_iters steps; it ends, and
\* unless an exception or a cancellation ended it, it has returned a reply
C10_BoundedTermination ==
    /\ [](/\ history.reasoned <= agent.max_iters
          /\ history.summarized <= 1
          /\ history.summarized = 1 => history.reasoned = agent.max_iters
          /\ (pc = "idle" /\ result.status \notin {"none", "raised", "cancelled"})
                => (result.status = "returned" /\ result.msg # NoMsg))
    /\ (pc # "idle") ~> (pc = "idle")

\* a reply returned by the summarizing call after max_iters reasoning steps
C10_Witness ==
    /\ result.status = "returned"
    /\ history.reasoned = agent.max_iters
    /\ history.summarized = 1
    /\ result.msg = loop.reply_msg

----------------------------------------------------------------------------
(* The finishing tool and the tool results *)

\* the calls of the finishing tool in the turn whose arguments fail validation
\* under the pending schema
InvalidCalls ==
    {k \in 1..Len(calls) : /\ calls[k].name = finish_function_name
                           /\ required # None
                           /\ ModelDump(calls[k].input) = None}

\* C11: a call of the finishing tool whose arguments fail validation raises
\* nothing and caches nothing; when it ends, one result turn holding the
\* validation error is appended for its request; the exit check of a step whose
\* finishing calls all failed leaves the schema pending, caches no structured
\* result, does not end the reply, and goes on to the next reasoning step if the
\* budget allows one (to the summarizing step if not)
C11_InvalidArgumentsRecoverable ==
    [][pc = "act" =>
         /\ \A k \in InvalidCalls :
               calls'[k] # calls[k] =>
                  /\ pc' = "act"
                  /\ result' = result
                  /\ required' = required
                  /\ loop' = loop
                  /\ calls'[k].ret = None
                  /\ calls'[k].st # "done" => memory' = memory
                  /\ calls'[k].st = "done" =>
                        memory' = Append(memory,
                                         ResultMsg(calls[k].id, finish_function_name,
                                                   <<"validation_error", 1>>))
         /\ (InvalidCalls # {} /\ ValidCalls(calls, required) = {} /\ calls' = calls) =>
               /\ required' = required
               /\ loop'.structured_output = None
               /\ result' = result
               /\ pc' = IF loop.iters < agent.max_iters THEN "reason" ELSE "summarize"
               /\ memory' = memory
    ]_vars

\* a reasoning step runs after a step whose finishing call failed validation
C11_Witness ==
    /\ pc = "model"
    /\ InvalidCalls # {}
    /\ \A k \in InvalidCalls : calls[k].st = "done" /\ calls[k].id \in AnsweredIds(memory)

\* the turns of the log that hold a tool result for the request id
ResultsOf(log, id) == {i \in 1..Len(log) : id \in ResultIds(log[i])}

\* the coroutine of the call has ended: it returned, the tool raised, or it was
\* cancelled
Ended(call) == call.st \in {"done", "raised", "cancelled"}

\* C12: for every tool request of the turn, the log holds no result turn while
\* its invocation is running and exactly one once it has ended (returned, the
\* tool raised, the finishing tool returned at its successful response, or it
\* was cancelled); the payload of that turn is the content of the last chunk the
\* invocation consumed, and the empty placeholder if it consumed none
C12_ExactlyOnceResult ==
    \A k \in 1..Len(calls) :
       LET call == calls[k]
           rs == ResultsOf(memory, call.id)
       IN /\ call.n = 0 => call.output = <<>>
          /\ call.n > 0 => call.output # <<>> /\ call.output[2] = call.n
          /\ IF Ended(call)
             THEN /\ Cardinality(rs) = 1
                  /\ \A i \in rs :
                        memory[i].tool_result =
                           <<ToolResultBlock(call.id, call.name, call.output)>>
             ELSE rs = {}

\* a turn of two tools run in parallel: one raised after a chunk; the other
\* consumed none and was not ended by it
C12_Witness ==
    /\ Len(calls) = 2
    /\ calls[1].st = "raised" /\ calls[1].n = 1
    /\ calls[2].st = "done" /\ calls[2].n = 0
    /\ result.status = "raised"

\* C13: when a cancellation raised while a tool of the turn was running (an
\* interrupted chunk, or the reply task cancelled) has left reply, every tool
\* request of that turn has a result turn in the log, the requests whose
\* invocation had not started included
C13_CancellationCompensated ==
    (/\ pc = "idle"
     /\ result.status = "cancelled"
     /\ \E k \in 1..Len(calls) : calls[k].st = "cancelled")
       => \A k \in 1..Len(calls) : ResultsOf(memory, calls[k].id) # {}

\* C14: a cancellation that arrives while the model's response is consumed
\* leaves reply as a cancellation, after the assistant turn with the content
\* received so far has been appended once, followed by one interrupted result
\* turn for each tool request of that turn; no tool is invoked
C14_ReasoningCancelled ==
    [][(pc = "model" /\ result'.status = "cancelled") =>
         LET at == Len(memory) + 1
             msg == memory'[at]
             n == Len(msg.tool_use)
         IN /\ pc' = "idle"
            /\ result'.msg = NoMsg
            /\ Len(memory') = at + n
            /\ SubSeq(memory', 1, Len(memory)) = memory
            /\ msg.role = "assistant" /\ msg.tool_result = <<>>
            /\ \A j \in 1..n :
                  /\ memory'[at + j].tool_result =
                        <<ToolResultBlock(msg.tool_use[j].id, msg.tool_use[j].name,
                                          <<"interrupted", 0>>)>>
                  /\ memory'[at + j].tool_use = <<>>
                  /\ Cardinality(ResultsOf(memory', msg.tool_use[j].id)) = 1
                  /\ \A k \in 1..Len(calls') : calls'[k].id # msg.tool_use[j].id
            /\ calls' = calls
    ]_vars

\* the reasoning step was cancelled after a tool request had been received
C14_Witness ==
    /\ pc = "idle"
    /\ result.status = "cancelled"
    /\ Len(memory) >= 2
    /\ memory[Len(memory)].tool_result # <<>>
    /\ memory[Len(memory)].tool_result[1].output = <<"interrupted", 0>>
    /\ memory[Len(memory) - 1].role = "assistant"
    /\ memory[Len(memory) - 1].tool_use # <<>>

SetupStep == pc = "idle" /\ pc' # "idle"

\* C16: after the setup phase of a reply call given a schema, whatever calls
\* came before, the finishing tool is registered once and bound to that schema
\* and a tool call is required; after the setup phase of a call given none, the
\* finishing tool is not registered and no schema is pending; the first
\* reasoning step offers the model these tools under this tool choice
C16_FinishToolAvailability ==
    /\ [][SetupStep =>
            IF required' # None
            THEN /\ toolkit'.finish = 1
                 /\ toolkit'.extended_model = required'
                 /\ loop'.tool_choice = "required"
            ELSE /\ toolkit'.finish = 0
                 /\ toolkit'.extended_model = None
                 /\ loop'.tool_choice = None]_vars
    /\ []((pc = "model" /\ loop.iters = 1) =>
            IF toolkit.finish > 0
            THEN /\ finish_function_name \in prompt.tools
                 /\ prompt.tool_choice = "required"
                 /\ required = toolkit.extended_model
            ELSE /\ finish_function_name \notin prompt.tools
                 /\ prompt.tool_choice = None
                 /\ required = None)

\* the setup phase of a call given a schema found the finishing tool registered
\* by an earlier call and bound to another schema
C16_Witness ==
    /\ history.rebound
    /\ pc = "model" /\ loop.iters = 1
    /\ toolkit = [finish |-> 1, extended_model |-> "schema2"]

\* the calls of the finishing tool in the turn
FinishCalls == {k \in 1..Len(calls) : calls[k].name = finish_function_name}

\* C17: the response of the finishing tool. With a schema pending, arguments
\* that validate give success = true with the validated data as structured
\* output, and arguments that do not give success = false with {}. With no
\* schema pending the call succeeds with no structured data, and the exit check
\* of its step caches nothing and does not end the reply
C17_FinishToolOutcomes ==
    [][/\ \A k \in FinishCalls :
             (pc = "act" /\ calls[k].n = 0 /\ k \in 1..Len(calls') /\ calls'[k].n = 1) =>
                LET validated == ModelDump(calls[k].input)
                    metadata == calls'[k].metadata
                IN IF required = None
                   THEN /\ metadata = [success |-> TRUE, structured_output |-> None]
                        /\ calls'[k].ret = None
                   ELSE IF validated # None
                   THEN /\ metadata = [success |-> TRUE, structured_output |-> validated]
                        /\ calls'[k].ret = validated
                   ELSE /\ metadata = [success |-> FALSE, structured_output |-> "{}"]
                        /\ calls'[k].ret = None
       /\ (/\ pc = "act" /\ calls' = calls
           /\ required = None /\ FinishCalls # {}) =>
             /\ loop'.structured_output = loop.structured_output
             /\ required' = None
             /\ result' = result
             /\ pc' \in {"reason", "summarize"}
    ]_vars

\* the finishing tool was called with no schema pending, and the loop went on
C17_Witness ==
    /\ pc \in {"reason", "summarize"}
    /\ required = None
    /\ \E k \in FinishCalls :
          /\ calls[k].st = "done"
          /\ calls[k].metadata = [success |-> TRUE, structured_output |-> None]
          /\ ModelDump(calls[k].input) # None

----------------------------------------------------------------------------
(* The ways a reply call ends *)

\* C18: the summarizing step is reached only after max_iters reasoning steps
\* without a reply, and at most one summarizing call is made; unless it raises,
\* the call hands the model a prompt that ends with the instruction turn, no
\* tool schemas and no tool choice; the reply carries the cached structured
\* output (or none) as metadata, is appended to the log once and is returned;
\* the instruction turn is not in the log; the step is taken in the end
C18_SummarizingFallback ==
    /\ [](/\ history.summarized <= 1
          /\ pc = "summarize" =>
                /\ history.summarized = 0
                /\ history.reasoned = agent.max_iters
                /\ loop.reply_msg = NoMsg)
    /\ [][pc = "summarize" =>
            /\ pc' = "idle"
            /\ history'.summarized = 1
            /\ \/ result'.status = "raised" /\ memory' = memory
               \/ /\ result'.status = "returned"
                  /\ prompt'.step = "summarizing"
                  /\ prompt'.tools = {} /\ prompt'.tool_choice = None
                  /\ prompt'.msgs[Len(prompt'.msgs)].turn = SummarizeHintMsg
                  /\ \A j \in 1..(Len(prompt'.msgs) - 1) :
                        prompt'.msgs[j].turn.kind # "summarize_hint"
                  /\ result'.msg.role = "assistant"
                  /\ result'.msg.metadata = loop.structured_output
                  /\ memory' = Append(memory, result'.msg)
                  /\ \A i \in 1..Len(memory') : memory'[i].kind # "summarize_hint"
         ]_vars
    /\ (pc = "summarize") ~> (pc = "idle" /\ history.summarized = 1)

\* the summarizing call returned a reply that carries a cached structured output
C18_Witness ==
    /\ pc = "idle"
    /\ result.status = "returned"
    /\ history.summarized = 1
    /\ result.msg.metadata = "d1"
    /\ memory[Len(memory)] = result.msg
    /\ prompt.step = "summarizing"

\* the step is the exit check that follows the tools of a reasoning turn
EvaluateStep == pc = "act" /\ calls' = calls /\ pc' # "act"

\* C19: with no schema pending, the exit check of a turn without tool requests
\* ends the reply with that turn (its content, the cached structured output as
\* metadata): nothing is added to the log and no model call or tool invocation
\* follows it; the exit check of a turn with tool requests, all of them
\* executed, goes on to the next step of the loop
C19_PlainExit ==
    /\ [][(EvaluateStep /\ required = None) =>
            IF msg_reasoning.tool_use = <<>>
            THEN /\ pc' = "idle"
                 /\ result'.status = "returned"
                 /\ result'.msg = [msg_reasoning EXCEPT !.metadata = loop.structured_output]
                 /\ memory' = memory
                 /\ memory[Len(memory)].text = result'.msg.text
                 /\ history'.reasoned = history.reasoned
                 /\ history'.summarized = 0
            ELSE /\ pc' = IF loop.iters < agent.max_iters THEN "reason" ELSE "summarize"
                 /\ result' = result
                 /\ required' = None
                 /\ memory' = memory
                 /\ \A k \in 1..Len(calls) :
                       calls[k].st = "done" /\ ResultsOf(memory, calls[k].id) # {}
         ]_vars
    /\ [][(pc = "idle" /\ result.status = "returned" /\ pc' = "idle") =>
             /\ result' = result
             /\ calls' = calls
             /\ history' = history]_vars

\* a reply ended by a turn without tool requests, after the schema was satisfied
\* in an earlier step
C19_Witness ==
    /\ pc = "idle"
    /\ result.status = "returned"
    /\ result.msg.tool_use = <<>>
    /\ result.msg.metadata = "d1"
    /\ history.summarized = 0
    /\ toolkit.finish > 0
    /\ required = None
    /\ result.msg.text = msg_reasoning.text

\* C20: the exit check of a step in which a call of the finishing tool validated
\* under the pending schema: if the reasoning turn holds text, the reply is
\* returned at once, made of that text and carrying the validated data, with no
\* further model call; if not, the text-only hint is added to the log, the
\* schema is no longer pending, tool calls are forbidden in the next reasoning
\* step (taken if the budget allows one), and the turn without tool requests of
\* that step is returned as the reply carrying the cached data
C20_StructuredExit ==
    /\ [][(EvaluateStep /\ required # None /\ ValidCalls(calls, required) # {}) =>
            LET data == LatestValidated(calls, required, None)
            IN IF msg_reasoning.text
               THEN /\ pc' = "idle"
                    /\ result'.status = "returned"
                    /\ result'.msg.text /\ result'.msg.tool_use = <<>>
                    /\ result'.msg.metadata = data
                    /\ history'.reasoned = history.reasoned
                    /\ history'.summarized = 0
               ELSE /\ memory' = Append(memory, [TextHintMsg EXCEPT !.mark = HINT])
                    /\ required' = None
                    /\ loop'.structured_output = data
                    /\ loop'.tool_choice = "none"
                    /\ pc' = IF loop.iters < agent.max_iters THEN "reason" ELSE "summarize"
         ]_vars
    /\ [][(pc = "reason" /\ loop.tool_choice = "none" /\ pc' = "model") =>
             /\ prompt'.tool_choice = "none"
             /\ \E j \in 1..Len(prompt'.msgs) : prompt'.msgs[j].turn.kind = "text_hint"
         ]_vars
    /\ [][(EvaluateStep /\ loop.tool_choice = "none" /\ msg_reasoning.tool_use = <<>>) =>
             /\ pc' = "idle"
             /\ result'.status = "returned"
             /\ result'.msg = [msg_reasoning EXCEPT !.metadata = loop.structured_output]
             /\ loop.structured_output # None
         ]_vars

\* the kinds of the turns of a prompt
PromptKinds(p) == {p.msgs[j].turn.kind : j \in 1..Len(p.msgs)}

\* C21: with a schema pending, the exit check of a turn without tool requests
\* never ends the reply: it adds the reminder to the hint messages, requires a
\* tool call and goes on to the next reasoning step if the budget allows one;
\* the prompt of a reasoning step holds the pending hint messages and is sent
\* under the tool choice of the loop
C21_ReminderWhenUnfinished ==
    /\ [][(EvaluateStep /\ required # None /\ msg_reasoning.tool_use = <<>>) =>
             /\ pc' = IF loop.iters < agent.max_iters THEN "reason" ELSE "summarize"
             /\ result' = result
             /\ required' = required
             /\ loop'.structured_output = None
             /\ hints' = Append(hints, ReminderMsg)
             /\ loop'.tool_choice = "required"
             /\ memory' = memory
         ]_vars
    /\ [][(pc = "reason" /\ pc' = "model") =>
             /\ \A j \in 1..Len(hints) : hints[j].kind \in PromptKinds(prompt')
             /\ prompt'.tool_choice = loop.tool_choice
         ]_vars
    /\ [][(pc # "idle" /\ pc' = "idle" /\ result'.status = "returned"
             /\ history'.summarized = 0 /\ required # None) =>
             result'.msg.metadata # None
         ]_vars

\* the model is called with the reminder in its prompt and a tool call required
C21_Witness ==
    /\ pc = "model"
    /\ required # None
    /\ "reminder" \in PromptKinds(prompt)
    /\ prompt.tool_choice = "required"
    /\ msg_reasoning.tool_use = <<>>
    /\ msg_reasoning.text

----------------------------------------------------------------------------
(* The log *)

\* C22: in every state, each tool result turn of the log comes after an
\* assistant turn that holds the tool request with its identifier, and no tool
\* request has more than one result turn
C22_RequestResultPairing ==
    \A i \in 1..Len(memory) :
       \A id \in ResultIds(memory[i]) :
          /\ \E j \in 1..(i - 1) :
                memory[j].role = "assistant" /\ id \in UseIds(memory[j])
          /\ ResultsOf(memory, id) = {i}

\* a cancellation left a reply in parallel mode after the result of the second
\* request of the turn was appended before the result of the first
C22_Witness ==
    /\ result.status = "cancelled"
    /\ agent.parallel_tool_calls
    /\ \E i, j \in 1..Len(memory) :
          /\ i < j
          /\ ResultIds(memory[i]) = {2}
          /\ ResultIds(memory[j]) = {1}

----------------------------------------------------------------------------
(* The order of the tool invocations of a turn *)

\* the place in the log of the result turn of call k (0: none)
ResultAt(k) ==
    IF ResultsOf(memory, calls[k].id) = {} THEN 0
    ELSE CHOOSE i \in ResultsOf(memory, calls[k].id) : TRUE

\* C23: with parallel_tool_calls off, an invocation of the turn takes a step
\* only when every earlier request of the turn has returned and has its result
\* turn in the log; the result turns of the turn are in the log in request order
C23_SequentialOrder ==
    /\ [](~agent.parallel_tool_calls =>
            \A k \in 1..Len(calls) : \A j \in 1..(k - 1) :
               /\ calls[k].st # "new" =>
                     calls[j].st = "done" /\ ResultAt(j) # 0
               /\ ResultAt(k) # 0 => (ResultAt(j) # 0 /\ ResultAt(j) < ResultAt(k)))
    /\ [][~agent.parallel_tool_calls =>
            \A k \in 1..Len(calls) :
               (k \in 1..Len(calls') /\ calls'[k].id = calls[k].id /\ calls'[k] # calls[k]) =>
                  \A j \in 1..(k - 1) : calls[j].st = "done" /\ ResultAt(j) # 0
         ]_vars

\* two tools of one turn were run in turn, each after a chunk
C23_Witness ==
    /\ ~agent.parallel_tool_calls
    /\ Len(calls) = 2
    /\ calls[1].name = "tool" /\ calls[2].name = "tool"
    /\ calls[1].n > 0 /\ calls[2].n > 0
    /\ calls[1].st = "done" /\ calls[2].st = "done"
    /\ ResultAt(1) < ResultAt(2)

\* each invocation consumes its chunks one after the other
ChunksInOrder ==
    [][\A k \in 1..Len(calls) :
          (k \in 1..Len(calls') /\ calls'[k].id = calls[k].id) =>
             /\ calls'[k].n \in {calls[k].n, calls[k].n + 1}
             /\ calls'[k].n > 0 => calls'[k].output[2] = calls'[k].n]_vars

\* the exit check of a turn is made after every request of it has its result turn
JoinBeforeEvaluate ==
    [][EvaluateStep => \A k \in 1..Len(calls) : ResultAt(k) # 0]_vars

\* C24: with parallel_tool_calls on, each invocation of a turn consumes its own
\* chunks in order, the exit check is made only after all the result turns of
\* the turn are in the log, and once a cancellation raised by an invocation has
\* left reply no tool result turn is appended
C24_ParallelExecution ==
    /\ ChunksInOrder
    /\ JoinBeforeEvaluate
    /\ [][(agent.parallel_tool_calls /\ pc = "idle" /\ result.status = "cancelled") =>
             AnsweredIds(memory') = AnsweredIds(memory)]_vars

\* a turn but for its mark
Unmarked(turn) == [turn EXCEPT !.mark = NoMark]

\* C25: no step deletes a turn of the log or changes anything of it but its
\* mark; the turn a reasoning step appended is in the log as it was appended
\* when reply returns
C25_TurnsImmutable ==
    [][/\ Len(memory') >= Len(memory)
       /\ \A i \in 1..Len(memory) : Unmarked(memory'[i]) = Unmarked(memory[i])
      ]_vars

\* C26: in every state the turns marked compressed are a prefix of the log (no
\* turn is compressed while an earlier one is not), and no step takes the
\* compressed mark off a turn
C26_MonotonicBoundary ==
    /\ [](\A j \in CompressedIdx(memory) : \A i \in 1..(j - 1) : i \in CompressedIdx(memory))
    /\ [][\A i \in CompressedIdx(memory) : i \in CompressedIdx(memory')]_vars

\* a second compaction run extended a compressed prefix over turns appended
\* after the first, and left recent turns uncompressed
C26_Witness ==
    /\ lastCompress.outcome = "compressed"
    /\ lastCompress.view[1] > 1
    /\ CompressedIdx(memory) # {}
    /\ Len(memory) \notin CompressedIdx(memory)

----------------------------------------------------------------------------
(* The units of keep_recent *)

\* a turn that holds a tool request or a tool result
ToolTurn(msg) == UseIds(msg) \cup ResultIds(msg) # {}

\* the first turns of the standalone turns and of the maximal runs of request
\* and result turns of a view
RunStarts(view) ==
    {k \in 1..Len(view) :
        \/ ~ToolTurn(view[k])
        \/ k = 1
        \/ ~ToolTurn(view[k - 1])}

\* C27: a maximal run of request and result turns takes one keep_recent slot,
\* however many request/result groups it holds: in a view of standalone turns
\* and groups the retained suffix starts at the first turn of the
\* keep_recent-th standalone turn or maximal run from the end
C27_MaximalRunIsOneUnit ==
    LET keep == compression_config.keep_recent
    IN (Ran /\ keep >= 1 /\ Grouped(RunView)
            /\ Cardinality(RunStarts(RunView)) >= keep)
         => lastCompress.ncand + 1 = NthFromEnd(RunStarts(RunView), keep)

\* C27, amended: two request/result groups that follow each other take two
\* keep_recent slots: in a view of standalone turns and groups that ends with
\* two groups in a row, the retained suffix starts at the request turn of the
\* last group when keep_recent = 1 and at the request turn of the group before
\* it when keep_recent = 2
C27_ConsecutiveGroupsAreTwoUnits ==
    LET keep == compression_config.keep_recent
        view == RunView
    IN (Ran /\ Grouped(view)) =>
          \A p, q \in 1..Len(view) :
             (/\ p < q
              /\ UseIds(view[p]) # {} /\ UseIds(view[q]) # {}
              /\ ResultIds(view[q - 1]) # {}
              /\ \A m \in (p + 1)..Len(view) : m # q => ResultIds(view[m]) # {}) =>
                /\ keep = 1 => lastCompress.ncand + 1 = q
                /\ keep = 2 => lastCompress.ncand + 1 = p

\* keep_recent = 1 and the view [A(text), B(request 1), C(result 1),
\* E(request 2), F(result 2)]: exactly [A, B, C] has been compressed
C27_Witness ==
    /\ compression_config.keep_recent = 1
    /\ lastCompress.outcome = "compressed"
    /\ lastCompress.view = <<1, 2, 3, 4, 5>>
    /\ memory[1].kind = "text"
    /\ memory[2].kind = "request" /\ memory[3].kind = "result"
    /\ memory[4].kind = "request" /\ memory[5].kind = "result"
    /\ ResultIds(memory[3]) = UseIds(memory[2])
    /\ ResultIds(memory[5]) = UseIds(memory[4])
    /\ CompressedIdx(memory) = {1, 2, 3}

----------------------------------------------------------------------------
(* The recognition of a structured result *)

\* the calls of the finishing tool in the turn whose ToolResponse reports
\* success
SucceededCalls == {k \in FinishCalls : calls[k].metadata.success}

\* C28: the exit check recognises a structured result by the success of the
\* finishing tool, whatever the validated data is, the empty mapping included:
\* when the tool calls of a turn have ended with a schema pending and a call of
\* the finishing tool succeeded, the data of the latest such call is cached and
\* reply either returns with it as metadata or clears the pending schema and
\* forbids tool calls
C28_RecognitionIgnoresContent ==
    [][(/\ EvaluateStep
        /\ \A k \in 1..Len(calls) : calls[k].st = "done"
        /\ required # None
        /\ SucceededCalls # {}) =>
          LET last == CHOOSE k \in SucceededCalls : \A j \in SucceededCalls : j <= k
              data == calls[last].metadata.structured_output
          IN /\ loop'.structured_output = data
             /\ \/ /\ result'.status = "returned"
                   /\ result'.msg.metadata = data
                \/ /\ required' = None
                   /\ loop'.tool_choice = "none"
                   /\ result' = result
      ]_vars

----------------------------------------------------------------------------
(* The interrupt handler *)

\* a reply that does not tell that it comes from an interruption
InterruptMsgUnflagged == Msg("assistant", "interrupt", TRUE, <<>>, <<>>, None)

\* lines 775-783: the reply of handle_interrupt, its metadata being
\* {"_is_interrupted": True}
InterruptMsg == Msg("assistant", "interrupt", TRUE, <<>>, <<>>, "_is_interrupted")

\* handle_interrupt(msg, structured_model), lines 760-786, called for a reply
\* that ended with CancelledError: neither argument is read
HandleInterrupt(msg, structured_model) ==
    /\ UNCHANGED <<ragVars, compaction>>
    /\ pc = "idle"
    /\ result.status = "cancelled"
    /\ memory' = MemoryAdd(memory, InterruptMsg, NoMark)
    /\ result' = [status |-> "interrupted", msg |-> InterruptMsg]
    /\ lastCompress' = NoCompress
    /\ UNCHANGED <<summary, compression_config, pc, agent, hints, required,
                   toolkit, loop, msg_reasoning, calls, prompt, history>>

\* the first reply call of an agent and the handling of its cancellation
NextInterrupt ==
    \/ NextReply
    \/ \E msg \in {NoMsg, TextMsg("user")}, structured_model \in StructuredModels :
          HandleInterrupt(msg, structured_model)

SpecInterrupt == Init /\ [][NextInterrupt]_vars

\* a step of handle_interrupt
HandleInterruptStep ==
    pc = "idle" /\ result.status = "cancelled" /\ result'.status = "interrupted"

\* C29: handle_interrupt, in whatever state the cancelled reply left the agent,
\* appends exactly one assistant turn to the log and returns that turn, whose
\* metadata flags the interruption; it sends no prompt to the model, runs no
\* tool and leaves every other turn and the rest of the agent's state as it was
C29_HandleInterrupt ==
    [][HandleInterruptStep =>
          /\ Len(memory') = Len(memory) + 1
          /\ SubSeq(memory', 1, Len(memory)) = memory
          /\ memory'[Len(memory')].role = "assistant"
          /\ memory'[Len(memory')].metadata = "_is_interrupted"
          /\ memory'[Len(memory')].tool_use = <<>>
          /\ Unmarked(memory'[Len(memory')]) = Unmarked(result'.msg)
          /\ prompt' = prompt
          /\ calls' = calls
          /\ history' = history
          /\ hints' = hints /\ required' = required /\ toolkit' = toolkit
          /\ summary' = summary
      ]_vars

\* the handler has run for a reply cancelled while a tool coroutine of a
\* parallel turn was still running, after a turn with a tool request
C29_Witness ==
    /\ result.status = "interrupted"
    /\ result.msg.metadata = "_is_interrupted"
    /\ memory[Len(memory)] = result.msg
    /\ calls # <<>>
    /\ \E k \in 1..Len(calls) : calls[k].st \in {"new", "run"}

----------------------------------------------------------------------------
(* Retrieval from the knowledge bases *)

\* the lists of at most n Msg, a Msg being given by whether it holds text
MsgLists(n) == UNION {[1..k -> BOOLEAN] : k \in 0..n}

\* the msg argument: None, a Msg, or a list of Msg
RetrievalInputs ==
    {[kind |-> "none", msgs |-> <<>>]}
    \cup {[kind |-> "msg", msgs |-> <<t>>] : t \in BOOLEAN}
    \cup {[kind |-> "list", msgs |-> l] : l \in MsgLists(MaxMsgs)}

\* the truth value of msg (line 873): None and the empty list are false
MsgTruthy(msg) == msg.kind = "msg" \/ (msg.kind = "list" /\ msg.msgs # <<>>)

\* lines 875-885: the query, the texts of the messages that hold text joined by
\* line breaks; None and the empty string are the empty sequence
Query(msg) ==
    LET texts == SelectSeq(msg.msgs, LAMBDA t : t)
    IN [k \in 1..Len(texts) |-> "text"]

\* the instruction turn of lines 904-912
RewriteHintMsg == Msg("user", "rewrite_hint", TRUE, <<>>, <<>>, None)

\* lines 896-913: the turns handed to the formatter for the rewrite
RewriteMsgs(log) ==
    <<Entry(0, SysMsg)>>
        \o LogEntries(log, IF compression_config.configured /\ compression_config.enable
                           THEN COMPRESSED ELSE None)
        \o <<Entry(0, RewriteHintMsg)>>

\* the turn of lines 945-961, holding the retrieved documents
RetrievedMsg == Msg("user", "retrieved_knowledge", TRUE, <<>>, <<>>, None)

\* a rewrite whose stream flag is put back only when the attempt raises nothing
StreamAfterRewriteOnSuccess(outcome, stream_tmp, stream) ==
    IF outcome \in {"raise", "cancel"} THEN stream ELSE stream_tmp

\* lines 921-922, finally: self.model.stream = stream_tmp
StreamAfterRewrite(outcome, stream_tmp, stream) == stream_tmp

\* the query after the answer of the model (lines 915-916): res.metadata with a
\* rewritten_query that is not empty replaces it
RewrittenQuery(outcome, query) ==
    IF outcome = "rewritten" THEN <<"rewritten">> ELSE query

\* _retrieve_from_knowledge(msg), lines 873-894: up to the rewrite
RetrieveFromKnowledge(msg) ==
    /\ UNCHANGED compaction
    /\ pc = "idle"
    /\ retrieval.pc = "idle"
    /\ Len(memory) < MaxLog
    /\ LET query == Query(msg)
           call == [NoRetrieval EXCEPT !.msg = msg, !.query = query,
                                       !.stream_before = model.stream]
       IN IF agent.knowledge = 0 \/ ~MsgTruthy(msg)
          THEN retrieval' = [call EXCEPT !.query = <<>>, !.status = "returned"]
          ELSE IF query = <<>>
          THEN retrieval' = [call EXCEPT !.status = "returned"]
          ELSE IF agent.enable_rewrite_query
          THEN retrieval' = [call EXCEPT !.status = "running", !.pc = "format",
                                         !.stream_tmp = model.stream]
          ELSE retrieval' = [call EXCEPT !.status = "running", !.pc = "retrieve"]
    /\ UNCHANGED <<logVars, pc, replyVars, model>>

\* lines 895-913: get_memory and formatter.format
RewriteFormat(outcome) ==
    /\ UNCHANGED compaction
    /\ retrieval.pc = "format"
    /\ outcome \in {"ok", "raise", "cancel"}
    /\ UNCHANGED <<logVars, pc, agent, hints, required, toolkit, loop,
                   msg_reasoning, calls, history, result>>
    /\ CASE outcome = "ok" ->
              /\ prompt' = [step |-> "rewrite", msgs |-> RewriteMsgs(memory),
                            tools |-> {}, tool_choice |-> None]
              /\ model' = [model EXCEPT !.stream = FALSE]
              /\ retrieval' = [retrieval EXCEPT !.pc = "model"]
         [] outcome = "raise" ->
              /\ model' = [model EXCEPT !.stream =
                             StreamAfterRewrite(outcome, retrieval.stream_tmp, @)]
              /\ retrieval' = [retrieval EXCEPT !.pc = "retrieve", !.rewrite = "raise"]
              /\ UNCHANGED prompt
         [] outcome = "cancel" ->
              /\ model' = [model EXCEPT !.stream =
                             StreamAfterRewrite(outcome, retrieval.stream_tmp, @)]
              /\ retrieval' = [retrieval EXCEPT !.pc = "idle", !.rewrite = "cancel",
                                                !.status = "cancelled"]
              /\ UNCHANGED prompt

\* lines 914-922: the model call of the rewrite and what follows it
RewriteModel(outcome) ==
    /\ UNCHANGED compaction
    /\ retrieval.pc = "model"
    /\ outcome \in {"rewritten", "no_metadata", "empty", "raise", "cancel"}
    /\ model' = [model EXCEPT !.stream =
                   StreamAfterRewrite(outcome, retrieval.stream_tmp, @)]
    /\ retrieval' =
          IF outcome = "cancel"
          THEN [retrieval EXCEPT !.pc = "idle", !.rewrite = outcome,
                                 !.status = "cancelled"]
          ELSE [retrieval EXCEPT !.pc = "retrieve", !.rewrite = outcome,
                                 !.query = RewrittenQuery(outcome, @)]
    /\ UNCHANGED <<logVars, pc, replyVars>>

\* lines 924-963: the knowledge bases are asked and the documents recorded
KbRetrieve(outcome) ==
    /\ UNCHANGED compaction
    /\ retrieval.pc = "retrieve"
    /\ outcome \in {"docs", "none", "raise", "cancel"}
    /\ retrieval' = [retrieval EXCEPT
                       !.pc = "idle",
                       !.asked = retrieval.query,
                       !.status = CASE outcome = "raise" -> "raised"
                                    [] outcome = "cancel" -> "cancelled"
                                    [] OTHER -> "returned"]
    /\ memory' = IF outcome = "docs"
                 THEN MemoryAdd(memory, RetrievedMsg, NoMark)
                 ELSE memory
    /\ UNCHANGED <<summary, compression_config, lastCompress, pc, replyVars, model>>

\* an agent with or without knowledge bases and query rewriting, whose model
\* streams or not
InitKnowledge ==
    /\ InitAgent
    /\ model \in [stream : BOOLEAN]
    /\ \E kb \in 0..1, rewrite \in BOOLEAN :
          agent = [parallel_tool_calls |-> FALSE, plan_notebook |-> FALSE,
                   max_iters |-> MaxIters, model |-> "honours",
                   memory |-> "copies", knowledge |-> kb,
                   enable_rewrite_query |-> rewrite]
    /\ compression_config = NoConfig

NextKnowledge ==
    \/ \E msg \in RetrievalInputs : RetrieveFromKnowledge(msg)
    \/ \E outcome \in {"ok", "raise", "cancel"} : RewriteFormat(outcome)
    \/ \E outcome \in {"rewritten", "no_metadata", "empty", "raise", "cancel"} :
          RewriteModel(outcome)
    \/ \E outcome \in {"docs", "none", "raise", "cancel"} : KbRetrieve(outcome)

SpecKnowledge == InitKnowledge /\ [][NextKnowledge]_vars

\* a rewrite attempt ends: the try statement of lines 895-922 is left
RewriteEnds == retrieval.pc \in {"format", "model"} /\ retrieval'.pc \notin {"format", "model"}

\* C30: when formatting the rewrite prompt or the rewrite model call raises an
\* ordinary error, or the model returns no rewritten query, nothing is raised:
\* the call goes on to the knowledge bases, which are asked the unmodified
\* query; and however the rewrite attempt ends, cancellation included, the
\* stream flag of the model is then what it was when the call began
C30_RewriteFallback ==
    /\ [][RewriteEnds =>
            /\ model'.stream = retrieval.stream_before
            /\ retrieval'.rewrite \in {"raise", "no_metadata", "empty"} =>
                  /\ retrieval'.pc = "retrieve"
                  /\ retrieval'.status = "running"
                  /\ retrieval'.query = Query(retrieval.msg)
         ]_vars
    /\ [][(/\ retrieval.pc = "retrieve" /\ retrieval'.pc = "idle"
           /\ retrieval.rewrite \in {"raise", "no_metadata", "empty"}) =>
             retrieval'.asked = Query(retrieval.msg)
         ]_vars
    /\ []((retrieval.status # "none" /\ retrieval.pc \in {"idle", "retrieve"}) =>
             model.stream = retrieval.stream_before)

\* the rewrite model call of a streaming model raised, the knowledge bases were
\* asked the unmodified query and their documents recorded
C30_Witness ==
    /\ retrieval.rewrite = "raise"
    /\ prompt.step = "rewrite"
    /\ retrieval.status = "returned"
    /\ retrieval.asked = Query(retrieval.msg)
    /\ retrieval.asked # <<>>
    /\ retrieval.stream_before /\ model.stream
    /\ memory # <<>> /\ memory[Len(memory)].kind = "retrieved_knowledge"

----------------------------------------------------------------------------
(* The reply and the log *)

\* the places in a log of the turns with the content and the metadata of msg
RecordedAt(log, msg) == {i \in 1..Len(log) : Unmarked(log[i]) = Unmarked(msg)}

\* C31: the reply returned is a turn of the log: when the first reply call of
\* an agent has returned, by whichever exit, exactly one turn of the log has
\* the content and the metadata of the returned turn
C31_ReplyIsLogTurn ==
    result.status = "returned" => Cardinality(RecordedAt(memory, result.msg)) = 1

----------------------------------------------------------------------------
(* _compress_memory_if_needed, await by await *)

\* a run that marks what the walk gives on the log as it is when it marks
MarkedIdsReread(run, log) ==
    LET idx == GetMemoryIdx(log, COMPRESSED)
    IN Candidates(idx, CandidateLen(GetMemory(log, COMPRESSED),
                                    compression_config.keep_recent))

\* line 1072, msg_ids=[_.id for _ in to_compressed_msgs]: the turns the run
\* took from the log at its start
MarkedIds(run, log) == run.ids

\* lines 968-1004: the view is read, the walk removes the recent turns; the run
\* then awaits formatter.format and the token counter
CompressStart ==
    /\ compaction.pc = "idle"
    /\ Len(memory) <= MaxLog
    /\ UNCHANGED <<logVars, pc, replyVars, ragVars>>
    /\ IF ~compression_config.configured \/ ~compression_config.enable
       THEN compaction' = [NoCompaction EXCEPT !.outcome = "disabled"]
       ELSE LET idx == GetMemoryIdx(memory, COMPRESSED)
                view == GetMemory(memory, COMPRESSED)
                ncand == CandidateLen(view, compression_config.keep_recent)
                run == [NoCompaction EXCEPT !.view = idx,
                                            !.ids = Candidates(idx, ncand),
                                            !.start_len = Len(memory)]
            IN IF ncand = 0
               THEN compaction' = [run EXCEPT !.outcome = "empty"]
               ELSE compaction' = [run EXCEPT !.pc = "count", !.outcome = "running"]

\* lines 1006-1017: the token count is back; above the threshold the run
\* awaits the summarization model
CompressCount(n_tokens) ==
    /\ compaction.pc = "count"
    /\ n_tokens \in TokenCounts
    /\ UNCHANGED <<logVars, pc, replyVars, ragVars>>
    /\ IF Triggered(n_tokens, compression_config.trigger_threshold)
       THEN compaction' = [compaction EXCEPT !.pc = "model", !.n_tokens = n_tokens]
       ELSE compaction' = [compaction EXCEPT !.pc = "idle", !.n_tokens = n_tokens,
                                             !.outcome = "below"]

\* lines 1049-1088: the answer of the summarization model is back; the summary
\* is stored and the turns taken at the start are marked
CompressModel(res) ==
    /\ compaction.pc = "model"
    /\ res \in ModelAnswers
    /\ UNCHANGED <<compression_config, lastCompress, pc, replyVars, ragVars>>
    /\ LET metadata == LastChunk(res.stream, res.chunks)
       IN /\ memory' = CompressMarks(metadata, memory, MarkedIds(compaction, memory))
          /\ summary' = IF metadata # None THEN SummaryText(metadata) ELSE summary
          /\ compaction' = [compaction EXCEPT
                              !.pc = "idle",
                              !.outcome = IF metadata # None
                                          THEN "compressed" ELSE "failed"]

\* an agent that calls its tools in turn, built with max_iters=1 and with
\* compression enabled
InitInterleaved ==
    /\ InitAgent
    /\ model = [stream |-> TRUE]
    /\ agent = [parallel_tool_calls |-> FALSE, plan_notebook |-> FALSE,
                max_iters |-> 1, model |-> "honours",
                memory |-> "copies", knowledge |-> 0,
                enable_rewrite_query |-> FALSE]
    /\ \E keep_recent \in 1..2 :
          compression_config = [configured |-> TRUE, enable |-> TRUE,
                                keep_recent |-> keep_recent,
                                trigger_threshold |-> 400]

\* the first reply call, with compaction runs whose awaits let the reply loop
\* and its tool coroutines append to the log
NextInterleaved ==
    \/ NextReply
    \/ CompressStart
    \/ \E n_tokens \in TokenCounts : CompressCount(n_tokens)
    \/ \E res \in ModelAnswers : CompressModel(res)

SpecInterleaved == InitInterleaved /\ [][NextInterleaved]_vars

\* the turns a step marks compressed
NewlyCompressed == CompressedIdx(memory') \ CompressedIdx(memory)

\* C32: a compaction run whose awaits are interleaved with the reply loop marks
\* only turns of the uncompressed view it read at its start: a turn appended
\* while it awaited the token counter or the summarization model is not marked
\* by it, no other step marks a turn, and the turns of the view that the walk
\* retained are uncompressed when the run has finished
C32_InterleavedCompaction ==
    /\ [][\A i \in NewlyCompressed :
             /\ compaction.pc = "model"
             /\ i \in Range(compaction.view)
             /\ i <= compaction.start_len
         ]_vars
    /\ [][(compaction.pc # "idle" /\ compaction'.pc = "idle") =>
             \A i \in Range(compaction.view) \ compaction.ids :
                i \notin CompressedIdx(memory')
         ]_vars

\* a run has compressed turns after the reply loop appended turns during its
\* awaits: the appended turns and the retained turns are uncompressed
C32_Witness ==
    /\ compaction.outcome = "compressed" /\ compaction.pc = "idle"
    /\ result.status = "running"
    /\ Len(memory) > compaction.start_len + 1
    /\ CompressedIdx(memory) = compaction.ids
    /\ compaction.ids # {}
    /\ Range(compaction.view) \ compaction.ids # {}

====
